---- MODULE Spec2Model ----
(***************************************************************************)
(* Pointer Tracker of the pixelation-mask viewer (components/Scene.tsx).   *)
(*                                                                         *)
(* MyScene is a React function component.  Its state lives in three        *)
(* useState cells (mousePosition, isMobile, isDraggingMask) and two refs   *)
(* (hasDraggedInCurrentMobileSession, prevIsMobileStateRef).  Three        *)
(* useEffect blocks run after a render whose dependency values changed;    *)
(* the DOM listeners they register are closures over the values of the     *)
(* render they belong to.  The model keeps, next to the state cells, the   *)
(* values seen by the last render (rendered) and the values captured by    *)
(* the registered listeners (e1, e3), so that a handler acts on what its   *)
(* closure holds and not on what the state cell holds now.                 *)
(*                                                                         *)
(* Scheduling.  A state update issued by a touchstart, touchend,           *)
(* touchcancel or resize listener is rendered, and its effects are run,    *)
(* before the next event is delivered (React flushes updates of discrete   *)
(* events synchronously).  An update issued by a mousemove or touchmove    *)
(* listener, or by an effect, is rendered later: other events may be       *)
(* delivered first, to the listeners registered so far.                    *)
(*                                                                         *)
(* Coordinates.  FocusPoint coordinates are stored doubled (unit: half a   *)
(* device pixel), so that (rect.width / 2) * dpr is exact for odd widths.  *)
(***************************************************************************)
EXTENDS Integers, FiniteSets, Sequences, TLC

\* ---------------------------------------------------------------- inputs

\* Viewport widths (CSS px) a resize can produce: two mobile, one desktop.
Widths == {500, 768, 769}

\* Viewport heights (CSS px).
Heights == {400, 600}

\* Devices: <<window.devicePixelRatio, offset of the container's bounding
\* rect (rect.left = rect.top)>>.
Devices == {<<1, 0>>, <<3, 8>>}

\* Client positions (clientX, clientY) of mouse and touch events.
ClientPoints == {<<0, 0>>, <<300, 200>>, <<360, 200>>, <<361, 200>>}

\* A touch event whose touches list is empty.
NoTouch == <<>>

\* ------------------------------------------------------------- constants

\* window.innerWidth <= 768 is mobile.
MobileMaxWidth == 768

\* Circle radius in CSS px, mobile and desktop.
MobileRadius == 110
DesktopRadius == 135

\* ----------------------------------------------------------------- state

VARIABLES
    innerWidth,        \* window.innerWidth; the container is 100vw wide
    innerHeight,       \* window.innerHeight; the container is 100vh high
    rectOffset,        \* rect.left and rect.top of the container
    devicePixelRatio,  \* window.devicePixelRatio
    mousePosition,     \* useState cell: [x, y], doubled device pixels
    isMobile,          \* useState cell
    isDraggingMask,    \* useState cell
    hasDraggedInCurrentMobileSession,  \* ref
    prevIsMobileStateRef,              \* ref
    rendered,          \* values of the cells seen by the last render
    mounted,           \* the effects have run once: listeners are registered
    e1,                \* Effect 1: isMobile captured by handleResize
    e2,                \* Effect 2: isMobile of its last run
    e3,                \* Effect 3: values captured by the container listeners
    renderPending,     \* a state update awaits its render
    effectsPending,    \* a committed render awaits its effects
    fingerDown,        \* a touch is on the screen
    touchIgnored,      \* the touch on the screen began outside the circle
    enteredMobile,     \* the last input was a resize from desktop to mobile width
    lastEvent,         \* the step taken last, its input, the state before it
    uniforms,          \* the uniforms of the mounted PixelationMaskEffect
    frame,             \* the last frame drawn, per sampled pixel
    currentModelIndex, \* App useState cell
    appIsMobile,       \* App useState cell isMobile
    isLoading,         \* App useState cell
    appRendered,       \* values of App's cells seen by its last render
    appRenderPending,  \* an App state update awaits its render
    appEffectsPending, \* a committed App render awaits its effects
    appMounted,        \* App's effects have run once
    pathEffect,        \* model of the last run of App's loading effect
    handlerStale,      \* App rendered a new handleModelLoaded since the
                       \* Model's effect last ran
    sceneStale,        \* the Canvas children await a render
    model,             \* the mounted Model: its key, effect run, notifications
    gltf,              \* useGLTF's cache: state of each model's asset
    notifiedEarly,     \* the Model of the selected path called onModelLoaded
                       \* before App's path-change effect ran for that path
    presenterIsMobile, \* the isMobile prop of the Model's last render
    isAutoRotationPaused,  \* Model useState cell
    rotationY,         \* groupRef.current.rotation.y, in half milliradians
    animationTimeRef,  \* Model ref animationTimeRef, in ms
    animationCompletedRef, \* Model ref animationCompletedRef
    animatedScale,     \* Model useState cell, a fraction [num, den]
    finalScale,        \* the finalScale prop of the Model, in thousandths
    presenterEvent     \* the Model's step taken last and its input

vars == <<innerWidth, innerHeight, rectOffset, devicePixelRatio, mousePosition,
          isMobile, isDraggingMask, hasDraggedInCurrentMobileSession,
          prevIsMobileStateRef, rendered, mounted, e1, e2, e3, renderPending,
          effectsPending, fingerDown, touchIgnored, enteredMobile, lastEvent,
          uniforms, frame, currentModelIndex, appIsMobile, isLoading,
          appRendered, appRenderPending, appEffectsPending, appMounted,
          pathEffect, handlerStale, sceneStale, model, gltf, notifiedEarly,
          presenterIsMobile, isAutoRotationPaused, rotationY, animationTimeRef,
          animationCompletedRef, animatedScale, finalScale, presenterEvent>>

\* The variables of MyScene's pointer tracking, and of App and Model.
sceneVars == <<innerWidth, innerHeight, rectOffset, devicePixelRatio,
               mousePosition, isMobile, isDraggingMask,
               hasDraggedInCurrentMobileSession, prevIsMobileStateRef, rendered,
               mounted, e1, e2, e3, renderPending, effectsPending, fingerDown,
               touchIgnored, enteredMobile, lastEvent>>

appVars == <<currentModelIndex, appIsMobile, isLoading, appRendered,
             appRenderPending, appEffectsPending, appMounted, pathEffect,
             handlerStale, sceneStale, model, gltf, notifiedEarly>>

\* The variables of one mounted Model: its rotation and entrance animation.
presenterVars == <<presenterIsMobile, isAutoRotationPaused, rotationY,
                   animationTimeRef, animationCompletedRef, animatedScale,
                   finalScale, presenterEvent>>

\* The component and its environment as one record, for the operators below.
World ==
    [innerWidth |-> innerWidth, innerHeight |-> innerHeight,
     rectOffset |-> rectOffset, devicePixelRatio |-> devicePixelRatio,
     mousePosition |-> mousePosition, isMobile |-> isMobile,
     isDraggingMask |-> isDraggingMask,
     hasDragged |-> hasDraggedInCurrentMobileSession,
     prevIsMobile |-> prevIsMobileStateRef,
     rendered |-> rendered, mounted |-> mounted, e1 |-> e1, e2 |-> e2, e3 |-> e3,
     renderPending |-> renderPending, effectsPending |-> effectsPending,
     updated |-> FALSE]

\* ------------------------------------------------------ pure computations

Max(a, b) == IF a >= b THEN a ELSE b
Min(a, b) == IF a <= b THEN a ELSE b

\* Math.max(1, Math.min(2, window.devicePixelRatio || 1))
Dpr(raw) == Max(1, Min(2, IF raw = 0 THEN 1 ELSE raw))

\* (rect.width / 2) * dpr, (rect.height / 2) * dpr, doubled.
RectCenter(w, dr) == [x |-> w.innerWidth * dr, y |-> w.innerHeight * dr]

\* ContainerPoint with the client position taken as container-relative.
ContainerPoint_NoRect(w, p, dr) ==
    [x |-> 2 * (p[1] * dr), y |-> 2 * (p[2] * dr)]

\* (clientX - rect.left) * dpr, (clientY - rect.top) * dpr, doubled.
ContainerPoint(w, p, dr) ==
    [x |-> 2 * ((p[1] - w.rectOffset) * dr),
     y |-> 2 * ((p[2] - w.rectOffset) * dr)]

\* getShaderCircleRadius in CSS pixels.
getShaderCircleRadius_CssPx(mobile, dr) ==
    IF mobile THEN MobileRadius ELSE DesktopRadius

\* isMobile ? 110 * dpr : 135 * dpr
getShaderCircleRadius(mobile, dr) ==
    IF mobile THEN MobileRadius * dr ELSE DesktopRadius * dr

\* Math.sqrt(dx^2 + dy^2) <= radius, on doubled coordinates.
WithinRadius(a, b, radius) ==
    (a.x - b.x) * (a.x - b.x) + (a.y - b.y) * (a.y - b.y)
        <= (2 * radius) * (2 * radius)

\* ----------------------------------------------------------- state setters

\* setIsMobile(v): a re-render is scheduled unless the value is unchanged.
\* updated records that the running listener or effect scheduled one.
setIsMobile(w, v) ==
    [w EXCEPT !.isMobile = v,
              !.renderPending = @ \/ (v # w.isMobile),
              !.updated = @ \/ (v # w.isMobile)]

\* setIsDraggingMask(v)
setIsDraggingMask(w, v) ==
    [w EXCEPT !.isDraggingMask = v,
              !.renderPending = @ \/ (v # w.isDraggingMask),
              !.updated = @ \/ (v # w.isDraggingMask)]

\* setMousePosition({x, y}): a new object every time, so always a re-render.
setMousePosition(w, p) ==
    [w EXCEPT !.mousePosition = p, !.renderPending = TRUE, !.updated = TRUE]

\* ---------------------------------------------------------------- handlers

\* handleResize with 768 px counted as desktop.
handleResize_Strict(w, cIsMobile) ==
    LET currentActualMobile == w.innerWidth < MobileMaxWidth
    IN  IF currentActualMobile # cIsMobile
        THEN setIsMobile(w, currentActualMobile)
        ELSE w

\* handleResize, closed over the isMobile of Effect 1's render.
handleResize(w, cIsMobile) ==
    LET currentActualMobile == w.innerWidth <= MobileMaxWidth
    IN  IF currentActualMobile # cIsMobile
        THEN setIsMobile(w, currentActualMobile)
        ELSE w

\* handleMouseMove without the desktop-only guard.
handleMouseMove_Unguarded(w, c, p) ==
    setMousePosition(w, ContainerPoint(w, p, c.dpr))

\* handleMouseMove, closed over c = Effect 3's captured values.
handleMouseMove(w, c, p) ==
    IF ~c.isMobile
    THEN setMousePosition(w, ContainerPoint(w, p, c.dpr))
    ELSE w

\* handleTouchStart accepting only touches strictly inside the circle.
handleTouchStart_Strict(w, c, t) ==
    IF c.isMobile /\ t # NoTouch
    THEN LET touch == ContainerPoint(w, t, c.dpr)
             shaderRadius == getShaderCircleRadius(c.isMobile, c.dpr)
             dx == touch.x - c.mousePosition.x
             dy == touch.y - c.mousePosition.y
         IN  IF dx * dx + dy * dy < (2 * shaderRadius) * (2 * shaderRadius)
             THEN [setMousePosition(setIsDraggingMask(w, TRUE), touch)
                      EXCEPT !.hasDragged = TRUE]
             ELSE w
    ELSE w

\* handleTouchStart; t is touches[0], or NoTouch when touches is empty.
handleTouchStart(w, c, t) ==
    IF c.isMobile /\ t # NoTouch
    THEN LET touch == ContainerPoint(w, t, c.dpr)
             shaderRadius == getShaderCircleRadius(c.isMobile, c.dpr)
         IN  IF WithinRadius(touch, c.mousePosition, shaderRadius)
             THEN [setMousePosition(setIsDraggingMask(w, TRUE), touch)
                      EXCEPT !.hasDragged = TRUE]
             ELSE w
    ELSE w

\* handleTouchMove that follows the touch only inside the circle.
handleTouchMove_HitTested(w, c, t) ==
    IF c.isMobile /\ c.isDraggingMask /\ t # NoTouch
    THEN LET touch == ContainerPoint(w, t, c.dpr)
         IN  IF WithinRadius(touch, c.mousePosition,
                             getShaderCircleRadius(c.isMobile, c.dpr))
             THEN setMousePosition(w, touch)
             ELSE w
    ELSE w

\* handleTouchMove
handleTouchMove(w, c, t) ==
    IF c.isMobile /\ c.isDraggingMask /\ t # NoTouch
    THEN setMousePosition(w, ContainerPoint(w, t, c.dpr))
    ELSE w

\* handleTouchEnd (touchend and touchcancel)
handleTouchEnd(w, c) ==
    IF c.isMobile THEN setIsDraggingMask(w, FALSE) ELSE w

\* ----------------------------------------------------------------- effects

\* Effect 1 (deps [isMobile]): handleResize() once, then listen to resize.
Effect1(w) ==
    LET r == w.rendered
    IN  IF ~w.mounted \/ w.e1 # r.isMobile
        THEN [handleResize(w, r.isMobile) EXCEPT !.e1 = r.isMobile]
        ELSE w

\* Effect 2 with the ref updated before the transition test.
Effect2_RefFirst(w) ==
    LET r == w.rendered
    IN  IF ~w.mounted \/ w.e2 # r.isMobile
        THEN [w EXCEPT !.prevIsMobile = r.isMobile, !.e2 = r.isMobile]
        ELSE w

\* Effect 2 (deps [isMobile]): reset the drag flag on desktop -> mobile.
Effect2(w) ==
    LET r == w.rendered
    IN  IF ~w.mounted \/ w.e2 # r.isMobile
        THEN [w EXCEPT
                !.hasDragged = IF r.isMobile /\ ~w.prevIsMobile THEN FALSE ELSE @,
                !.prevIsMobile = r.isMobile,
                !.e2 = r.isMobile]
        ELSE w

\* The values Effect 3 depends on and its listeners capture.
Captured(r) ==
    [dpr |-> r.dpr, isMobile |-> r.isMobile,
     isDraggingMask |-> r.isDraggingMask, mousePosition |-> r.mousePosition]

\* Effect 3 centring whenever no drag is in progress.
Effect3_CentreAfterDrag(w) ==
    LET r == w.rendered
    IN  IF ~w.mounted \/ w.e3 # Captured(r)
        THEN LET centred ==
                    IF r.isMobile /\ ~r.isDraggingMask
                    THEN setMousePosition(w, RectCenter(w, r.dpr))
                    ELSE w
             IN  [centred EXCEPT !.e3 = Captured(r)]
        ELSE w

\* Effect 3 depending on the mousePosition object instead of its x and y:
\* the dependencies it records never equal those of a later render.
Effect3_ObjectDep(w) ==
    LET r == w.rendered
        centred == IF r.isMobile /\ ~w.hasDragged /\ ~r.isDraggingMask
                   THEN setMousePosition(w, RectCenter(w, r.dpr))
                   ELSE w
    IN  [centred EXCEPT !.e3 = [Captured(r) EXCEPT
                                   !.mousePosition = [x |-> -1, y |-> -1]]]

\* Effect 3 (deps [dpr, isMobile, isDraggingMask, mousePosition.x, .y]):
\* conditional centering, then registration of the container listeners.
Effect3(w) ==
    LET r == w.rendered
    IN  IF ~w.mounted \/ w.e3 # Captured(r)
        THEN LET centred ==
                    IF r.isMobile /\ ~w.hasDragged /\ ~r.isDraggingMask
                    THEN setMousePosition(w, RectCenter(w, r.dpr))
                    ELSE w
             IN  [centred EXCEPT !.e3 = Captured(r)]
        ELSE w

\* Some effect of the last render has changed dependencies.
DepsChanged(w) ==
    \/ ~w.mounted
    \/ w.e1 # w.rendered.isMobile
    \/ w.e2 # w.rendered.isMobile
    \/ w.e3 # Captured(w.rendered)

\* One pass of the effects of the committed render, in declaration order.
RunEffects(w) ==
    [Effect3(Effect2(Effect1(w))) EXCEPT !.mounted = TRUE, !.effectsPending = FALSE]

\* RenderScene passing on the FocusPoint of the render before.
RenderScene_StaleFocus(w) ==
    LET r == [isMobile |-> w.isMobile, isDraggingMask |-> w.isDraggingMask,
              mousePosition |-> w.rendered.mousePosition,
              dpr |-> Dpr(w.devicePixelRatio)]
        w1 == [w EXCEPT !.rendered = r, !.renderPending = FALSE]
    IN  [w1 EXCEPT !.effectsPending = DepsChanged(w1)]

\* The function body: read the cells, compute dpr, commit.
RenderScene(w) ==
    LET r == [isMobile |-> w.isMobile, isDraggingMask |-> w.isDraggingMask,
              mousePosition |-> w.mousePosition, dpr |-> Dpr(w.devicePixelRatio)]
        w1 == [w EXCEPT !.rendered = r, !.renderPending = FALSE]
    IN  [w1 EXCEPT !.effectsPending = DepsChanged(w1)]

\* After a discrete event: pending effects, the render and its effects run
\* before the next event, when the listener issued an update.
FlushSync(w) ==
    IF w.updated
    THEN LET a == IF w.effectsPending THEN RunEffects(w) ELSE w
             b == RenderScene(a)
         IN  IF b.effectsPending THEN RunEffects(b) ELSE b
    ELSE w

\* ------------------------------------------------------------ mask shader
\* effects/PixelationMaskEffect.ts.  A pixel is <<i, j>>, column and row of
\* the render surface, rows counted from the bottom.  The uniform
\* mousePosition and the coordinates of fragments and texture samples are
\* doubled like FocusPoint; radii, granularity and resolution are in device
\* pixels.  The hover uniform is in tenths (10 is 1.0).

\* float borderWidth = 4.0
BorderWidth == 4

\* Constructor defaults: granularity = 10, circleRadius = 125.
DefaultGranularity == 10
DefaultCircleRadius == 125

\* isModelHovered ? 1.0 : 0.0, and the shader's test isModelHovered > 0.5.
HoverOn == 10
HoverOff == 0
HoverThreshold == 5

\* A colour read from the input buffer at uv (doubled pixel coordinates).
texture2D(uv) == [color |-> "inputBuffer", uv |-> uv]

\* vec4(1.0, 1.0, 1.0, 1.0)
White == [color |-> "white", uv |-> <<>>]

\* uv * screenSize of the fragment of pixel p: the pixel's centre.
fragPixelCoord(p) == <<2 * p[1] + 1, 2 * p[2] + 1>>

\* snapToGrid rounding to the nearest grid line.
snapToGrid_Nearest(c, granularity) ==
    (2 * granularity) * ((c + granularity) \div (2 * granularity))

\* dxy * floor(uv / dxy) on one axis, for the doubled pixel coordinate c.
snapToGrid(c, granularity) ==
    (2 * granularity) * (c \div (2 * granularity))

\* dxy * floor(uv / dxy) with dxy = granularity / screenSize.
pixelatedUv(u, p) ==
    <<snapToGrid(2 * p[1] + 1, u.granularity),
      snapToGrid(2 * p[2] + 1, u.granularity)>>

\* correctedMousePosition without the flip of Y.
correctedMousePosition_NoFlip(u) ==
    <<u.mousePosition.x, u.mousePosition.y>>

\* vec2(mousePosition.x, screenSize.y - mousePosition.y)
correctedMousePosition(u) ==
    <<u.mousePosition.x, 2 * u.resolution[2] - u.mousePosition.y>>

\* distance(fragPixelCoord, correctedMousePosition), squared.
DistSq(u, p) ==
    LET f == fragPixelCoord(p)
        m == correctedMousePosition(u)
    IN  (f[1] - m[1]) * (f[1] - m[1]) + (f[2] - m[2]) * (f[2] - m[2])

\* dist < r, dist > r and dist <= r for a distance given by its square (in
\* doubled units) and a radius r in pixels, which may be negative.
DistLess(d2, r) == r > 0 /\ d2 < (2 * r) * (2 * r)
DistGreater(d2, r) == r < 0 \/ d2 > (2 * r) * (2 * r)
DistAtMost(d2, r) == r >= 0 /\ d2 <= (2 * r) * (2 * r)

\* dist > circleRadius - borderWidth && dist < circleRadius
isInBorder(u, p, borderWidth) ==
    /\ DistGreater(DistSq(u, p), u.circleRadius - borderWidth)
    /\ DistLess(DistSq(u, p), u.circleRadius)

\* InsideCircle with circleRadius taken as a diameter.
InsideCircle_Diameter(u, p) ==
    /\ u.circleRadius > 0
    /\ 4 * DistSq(u, p) < (2 * u.circleRadius) * (2 * u.circleRadius)

\* dist < circleRadius
InsideCircle(u, p) == DistLess(DistSq(u, p), u.circleRadius)

\* mainImage testing the circle before the border.
mainImageWith_CircleFirst(u, p, borderWidth) ==
    IF u.isModelHovered > HoverThreshold
    THEN IF InsideCircle(u, p)
         THEN texture2D(fragPixelCoord(p))
         ELSE IF isInBorder(u, p, borderWidth) /\ borderWidth > 0
              THEN White
              ELSE texture2D(pixelatedUv(u, p))
    ELSE texture2D(pixelatedUv(u, p))

\* mainImage, with the local borderWidth as a parameter.
mainImageWith(u, p, borderWidth) ==
    IF u.isModelHovered > HoverThreshold
    THEN IF isInBorder(u, p, borderWidth) /\ borderWidth > 0
         THEN White
         ELSE IF InsideCircle(u, p)
              THEN texture2D(fragPixelCoord(p))
              ELSE texture2D(pixelatedUv(u, p))
    ELSE texture2D(pixelatedUv(u, p))

\* mainImage without the hover gate.
mainImage_Ungated(u, p) ==
    mainImageWith([u EXCEPT !.isModelHovered = HoverOn], p, BorderWidth)

\* mainImage of the fragment shader.
mainImage(u, p) == mainImageWith(u, p, BorderWidth)

\* new PixelationMaskEffectImpl(props): the uniforms map.  A prop the caller
\* does not pass takes its default; a prop the constructor does not
\* destructure is dropped.  resolution is the composer's, not a prop.
PixelationMaskEffectImpl(props, resolution) ==
    [resolution |-> resolution,
     granularity |-> IF "granularity" \in DOMAIN props
                     THEN props.granularity ELSE DefaultGranularity,
     mousePosition |-> IF "mousePosition" \in DOMAIN props
                       THEN props.mousePosition ELSE [x |-> 0, y |-> 0],
     isModelHovered |-> IF "isModelHovered" \in DOMAIN props /\ props.isModelHovered
                        THEN HoverOn ELSE HoverOff,
     circleRadius |-> IF "circleRadius" \in DOMAIN props
                      THEN props.circleRadius ELSE DefaultCircleRadius]

\* The props MyScene passes to <PixelationMaskEffect> in render r.
\* fisheyeStrength is in hundredths.
SceneEffectProps(r) ==
    [granularity |-> 15 * r.dpr,
     mousePosition |-> r.mousePosition,
     circleRadius |-> IF r.isMobile THEN 110 * r.dpr ELSE 135 * r.dpr,
     blurRadius |-> 0,
     fisheyeStrength |-> 5,
     edgeWarpAmplitude |-> IF r.isMobile THEN 3 * r.dpr ELSE 6 * r.dpr,
     edgeWarpFrequency |-> 0]

\* The size of the render surface in device pixels: the container fills the
\* window.
SurfaceResolution(w) ==
    <<w.innerWidth * w.rendered.dpr, w.innerHeight * w.rendered.dpr>>

\* The uniforms of the effect as the last render of MyScene mounted it.
SceneUniforms(w) ==
    PixelationMaskEffectImpl(SceneEffectProps(w.rendered), SurfaceResolution(w))

\* No frame drawn yet.
NoFrame == <<>>

\* ------------------------------------------- distance-based mask variant
\* The always-on variant that MyScene's props (blurRadius, fisheyeStrength,
\* edgeWarpAmplitude, edgeWarpFrequency) are written for.  Its shader is
\* modelled for fisheyeStrength = 0 and edgeWarpAmplitude = 0: the sharp
\* colour is read at the pixel's own uv and dist is not perturbed.

\* Width of the border band outside outerEdge, in pixels.
BorderThickness == 2

\* The flat border colour.
BorderColor == [color |-> "border", uv |-> <<>>]

\* smoothstep(edge0, edge1, dist): "0", "1", or "between" for a value
\* strictly between; 0/0 at dist = edge0 = edge1, and edge0 > edge1, are
\* "undefined".
smoothstep(edge0, edge1, d2) ==
    IF edge0 > edge1 THEN "undefined"
    ELSE IF edge0 = edge1
         THEN IF DistLess(d2, edge0) THEN "0"
              ELSE IF DistGreater(d2, edge1) THEN "1" ELSE "undefined"
         ELSE IF DistAtMost(d2, edge0) THEN "0"
              ELSE IF DistLess(d2, edge1) THEN "between" ELSE "1"

\* mix(a, b, t)
mix(a, b, t) ==
    IF t = "0" THEN a
    ELSE IF t = "1" THEN b
    ELSE IF t = "between" THEN [color |-> "mix", uv |-> a.uv \o b.uv]
    ELSE [color |-> "undefined", uv |-> <<>>]

\* The per-pixel algorithm, steps 1, 2 and 5.
maskImage(c, p) ==
    LET d2 == DistSq(c, p)
        innerEdge == c.circleRadius - c.blurRadius
        outerEdge == c.circleRadius + c.blurRadius
    IN  IF DistGreater(d2, outerEdge) /\ DistAtMost(d2, outerEdge + BorderThickness)
        THEN BorderColor
        ELSE IF DistAtMost(d2, outerEdge)
             THEN mix(texture2D(fragPixelCoord(p)), texture2D(pixelatedUv(c, p)),
                      smoothstep(innerEdge, outerEdge, d2))
             ELSE texture2D(pixelatedUv(c, p))

\* The distance-based variant's configuration with the uniforms u and blur
\* radius b.
MaskConfig(u, b) ==
    [resolution |-> u.resolution, granularity |-> u.granularity,
     mousePosition |-> u.mousePosition, circleRadius |-> u.circleRadius,
     blurRadius |-> b]

\* ------------------------------------------------------- App and Model
\* App (the second part of effects/PixelationMaskEffect.ts) and the Model
\* component.  App's updates are rendered by AppRender; the Canvas children
\* (the Model) are rendered by React Three Fiber's own root in ModelCommit,
\* with the props of App's last render.

\* models.length
NumModels == 4
Models == 0 .. (NumModels - 1)

\* window.innerWidth < 768 is mobile for App.
AppMobileWidth == 768

\* Notifications of one Model are counted up to this number.
MaxNotified == 2

\* No Model is mounted / the loading effect has not run.
NoModel == [key |-> -1, ran |-> FALSE, notified |-> 0]
NoPath == -1

\* App after its first render is committed, before its effects; nothing is
\* rendered in the Canvas yet.  mobile is the initial value of its isMobile.
AppStart(mobile) ==
    /\ currentModelIndex = 0
    /\ appIsMobile = mobile
    /\ isLoading = TRUE
    /\ appRendered = [index |-> 0, isMobile |-> mobile, isLoading |-> TRUE]
    /\ appRenderPending = FALSE
    /\ appEffectsPending = TRUE
    /\ appMounted = FALSE
    /\ pathEffect = NoPath
    /\ handlerStale = FALSE
    /\ sceneStale = TRUE
    /\ model = NoModel
    /\ gltf = [i \in Models |-> "none"]
    /\ notifiedEarly = FALSE

\* useState(window.innerWidth < 768)
AppInit == AppStart(innerWidth < AppMobileWidth)

\* ------------------------------------------------------- Model presenter
\* One mounted Model (part_000), from its first committed render: the asset
\* is loaded (useGLTF suspends until then) and the group is in the scene.
\* Times are in ms, scales in thousandths, the rotation in half milliradians
\* (rotation.y += delta * 0.5 adds delta).  A value computed with an easing
\* function is kept as an exact fraction [num, den].

INITIAL_ANIMATION_SCALE == 10
\* OVERSHOOT_SCALE_FACTOR = 1.05, in hundredths.
OVERSHOOT_SCALE_FACTOR == 105
OVERSHOOT_DURATION == 250
SETTLE_DURATION == 200
TOTAL_ANIMATION_DURATION == OVERSHOOT_DURATION + SETTLE_DURATION

\* targetScaleValueForAnimationLogic when finalScale is not given: 1.0.
DefaultFinalScale == 1000

\* event.button of a pointer event: left and right.
LeftButton == 0
Buttons == {0, 2}

Frac(num, den) == [num |-> num, den |-> den]

\* Math.min(n / d, 1)
MinOne(n, d) == Frac(Min(n, d), d)

\* easeOutQuad = t * (2 - t)
easeOutQuad(t) == Frac(t.num * (2 * t.den - t.num), t.den * t.den)

\* easeInOuQuad = t < 0.5 ? 2 * t * t : 1 - Math.pow(-2 * t + 2, 2) / 2
easeInOuQuad(t) ==
    IF 2 * t.num < t.den
    THEN Frac(2 * t.num * t.num, t.den * t.den)
    ELSE Frac(2 * t.den * t.den - (2 * t.den - 2 * t.num) * (2 * t.den - 2 * t.num),
              2 * t.den * t.den)

\* a + (b - a) * e
Lerp(a, b, e) == Frac(a * e.den + (b - a) * e.num, e.den)

\* targetScaleValueForAnimationLogic * OVERSHOOT_SCALE_FACTOR
actualOvershootScale(target) == (target * OVERSHOOT_SCALE_FACTOR) \div 100

\* ScaleAnimation leaving the scale at the overshoot value on completion.
ScaleAnimation_EndsAtOvershoot(time, target, delta) ==
    LET t == time + delta
        completed == t >= TOTAL_ANIMATION_DURATION
    IN  [time |-> t, completed |-> completed,
         scale |-> IF t <= OVERSHOOT_DURATION
                   THEN Lerp(INITIAL_ANIMATION_SCALE, actualOvershootScale(target),
                             easeOutQuad(MinOne(t, OVERSHOOT_DURATION)))
                   ELSE Frac(actualOvershootScale(target), 1)]

\* The scale animation of useFrame for a frame of delta ms, entered when
\* the animation is not completed: the new animationTimeRef,
\* animationCompletedRef and the value given to setAnimatedScale.
ScaleAnimation(time, target, delta) ==
    LET t == time + delta
        eased == IF t <= OVERSHOOT_DURATION
                 THEN Lerp(INITIAL_ANIMATION_SCALE, actualOvershootScale(target),
                           easeOutQuad(MinOne(t, OVERSHOOT_DURATION)))
                 ELSE Lerp(actualOvershootScale(target), target,
                           easeInOuQuad(MinOne(t - OVERSHOOT_DURATION,
                                               SETTLE_DURATION)))
        completed == MinOne(t, TOTAL_ANIMATION_DURATION).num
                         >= MinOne(t, TOTAL_ANIMATION_DURATION).den
    IN  [time |-> t, completed |-> completed,
         scale |-> IF completed THEN Frac(target, 1) ELSE eased]

\* onPointerDown pausing in either mode.
onPointerDown_AnyMode(paused, mobile, button) ==
    IF button = LeftButton THEN TRUE ELSE paused

\* onPointerDown of the bounding mesh: the next isAutoRotationPaused.
onPointerDown(paused, mobile, button) ==
    IF button = LeftButton /\ ~mobile THEN TRUE ELSE paused

\* handleGlobalPointerUp: the next isAutoRotationPaused.
handleGlobalPointerUp(paused, button) ==
    IF button = LeftButton THEN FALSE ELSE paused

\* The Model after its first committed render, with the props isMobile and
\* finalScale.
PresenterStart(mobile, scale) ==
    /\ presenterIsMobile = mobile
    /\ isAutoRotationPaused = FALSE
    /\ rotationY = 0
    /\ animationTimeRef = 0
    /\ animationCompletedRef = FALSE
    /\ animatedScale = Frac(INITIAL_ANIMATION_SCALE, 1)
    /\ finalScale = scale
    /\ presenterEvent = [type |-> "mount"]

\* The next state of MyScene is w; the effect is mounted with the props of
\* w's last render.
SceneBecomes(w) ==
    /\ innerWidth' = w.innerWidth
    /\ innerHeight' = w.innerHeight
    /\ rectOffset' = w.rectOffset
    /\ devicePixelRatio' = w.devicePixelRatio
    /\ mousePosition' = w.mousePosition
    /\ isMobile' = w.isMobile
    /\ isDraggingMask' = w.isDraggingMask
    /\ hasDraggedInCurrentMobileSession' = w.hasDragged
    /\ prevIsMobileStateRef' = w.prevIsMobile
    /\ rendered' = w.rendered
    /\ mounted' = w.mounted
    /\ e1' = w.e1
    /\ e2' = w.e2
    /\ e3' = w.e3
    /\ renderPending' = w.renderPending
    /\ effectsPending' = w.effectsPending
    /\ uniforms' = SceneUniforms(w)
    /\ frame' = frame

\* A step of MyScene alone: App and the Model are left as they are.
Becomes(w) ==
    /\ SceneBecomes(w)
    /\ UNCHANGED appVars
    /\ UNCHANGED presenterVars

\* ------------------------------------------------------------------ views

\* The current mask centre and input mode.
FocusPoint == mousePosition
InputModeMobile == isMobile

\* The registered listeners and the last render hold the current state.
Settled == mounted /\ ~renderPending /\ ~effectsPending

\* The registered container listeners were rendered in the current InputMode.
ModeRegistered == mounted /\ e3.isMobile = isMobile

\* The registered container listeners hold the current values of the cells.
ListenersCurrent ==
    /\ mounted
    /\ e3.isMobile = isMobile
    /\ e3.isDraggingMask = isDraggingMask
    /\ e3.mousePosition = mousePosition

\* The state an event meets, as far as later states need to know it.
Before ==
    [settled |-> Settled, isMobile |-> isMobile,
     isDraggingMask |-> isDraggingMask,
     hasDragged |-> hasDraggedInCurrentMobileSession]

\* Touch t lies inside the circle around the current FocusPoint.
HitsCircle(t) ==
    /\ t # NoTouch
    /\ WithinRadius(ContainerPoint(World, t, Dpr(devicePixelRatio)), mousePosition,
                    getShaderCircleRadius(isMobile, Dpr(devicePixelRatio)))

\* -------------------------------------------------------------------- Init

InitialState == [x |-> 0, y |-> 0]

\* MyScene after its first render is committed, before its effects.
SceneInit ==
    /\ innerWidth \in Widths
    /\ innerHeight \in Heights
    /\ \E d \in Devices : devicePixelRatio = d[1] /\ rectOffset = d[2]
    /\ mousePosition = InitialState
    /\ isMobile = FALSE
    /\ isDraggingMask = FALSE
    /\ hasDraggedInCurrentMobileSession = FALSE
    /\ prevIsMobileStateRef = FALSE
    /\ rendered = [isMobile |-> FALSE, isDraggingMask |-> FALSE,
                   mousePosition |-> InitialState, dpr |-> Dpr(devicePixelRatio)]
    /\ mounted = FALSE
    /\ e1 = FALSE
    /\ e2 = FALSE
    /\ e3 = Captured(rendered)
    /\ renderPending = FALSE
    /\ effectsPending = TRUE
    /\ fingerDown = FALSE
    /\ touchIgnored = FALSE
    /\ enteredMobile = FALSE
    /\ lastEvent = [type |-> "mount"]

\* MyScene mounts; no frame is recorded, and App is not stepped.
Init ==
    /\ SceneInit
    /\ uniforms = SceneUniforms(World)
    /\ frame = NoFrame
    /\ AppStart(FALSE)
    /\ PresenterStart(FALSE, DefaultFinalScale)

\* ----------------------------------------------------------------- actions

\* The renders and effect passes since the last event, the step e included.
CascadeSteps(e) == IF e.type \in {"render", "effects"} THEN e.n ELSE 0

\* The scheduler renders a pending update (after the effects still pending).
Render ==
    /\ renderPending
    /\ ~effectsPending
    /\ Becomes(RenderScene(World))
    /\ lastEvent' = [type |-> "render", n |-> CascadeSteps(lastEvent) + 1]
    /\ UNCHANGED <<fingerDown, touchIgnored, enteredMobile>>

\* The effects of the committed render run.
FlushEffects ==
    /\ effectsPending
    /\ Becomes(RunEffects(World))
    /\ lastEvent' = [type |-> "effects", n |-> CascadeSteps(lastEvent) + 1]
    /\ UNCHANGED <<fingerDown, touchIgnored, enteredMobile>>

\* The window is resized; the resize listener of Effect 1 runs.
Resize ==
    \E wd \in Widths, ht \in Heights :
        /\ <<wd, ht>> # <<innerWidth, innerHeight>>
        /\ LET w0 == [World EXCEPT !.innerWidth = wd, !.innerHeight = ht]
               w1 == IF mounted THEN handleResize(w0, e1) ELSE w0
           IN  Becomes(FlushSync(w1))
        /\ lastEvent' = [type |-> "resize", before |-> Before]
        /\ enteredMobile' = (innerWidth > MobileMaxWidth /\ wd <= MobileMaxWidth)
        /\ UNCHANGED <<fingerDown, touchIgnored>>

\* mousemove on the container.
MouseMove ==
    \E p \in ClientPoints :
        /\ mounted
        /\ Becomes(handleMouseMove(World, e3, p))
        /\ lastEvent' = [type |-> "mousemove", at |-> p, before |-> Before]
        /\ enteredMobile' = FALSE
        /\ UNCHANGED <<fingerDown, touchIgnored>>

\* touchstart on the container.
TouchStart ==
    \E t \in ClientPoints \cup {NoTouch} :
        /\ mounted
        /\ ~fingerDown
        /\ Becomes(FlushSync(handleTouchStart(World, e3, t)))
        /\ fingerDown' = TRUE
        /\ enteredMobile' = FALSE
        /\ touchIgnored' = (/\ ListenersCurrent
                            /\ isMobile
                            /\ t # NoTouch
                            /\ ~HitsCircle(t))
        /\ lastEvent' = [type |-> "touchstart", at |-> t, before |-> Before,
                         hit |-> HitsCircle(t)]

\* touchmove on the container.
TouchMove ==
    \E t \in ClientPoints \cup {NoTouch} :
        /\ mounted
        /\ fingerDown
        /\ Becomes(handleTouchMove(World, e3, t))
        /\ lastEvent' = [type |-> "touchmove", at |-> t, before |-> Before]
        /\ enteredMobile' = FALSE
        /\ UNCHANGED <<fingerDown, touchIgnored>>

\* touchend or touchcancel on the container.
TouchEnd ==
    /\ mounted
    /\ fingerDown
    /\ Becomes(FlushSync(handleTouchEnd(World, e3)))
    /\ fingerDown' = FALSE
    /\ touchIgnored' = FALSE
    /\ enteredMobile' = FALSE
    /\ lastEvent' = [type |-> "touchend", before |-> Before]

Next ==
    \/ Render
    \/ FlushEffects
    \/ Resize
    \/ MouseMove
    \/ TouchStart
    \/ TouchMove
    \/ TouchEnd

Spec == Init /\ [][Next]_vars

\* ------------------------------------------------- the shader on its own
\* The effect with uniforms drawn from the sets below draws one frame on a
\* 500 x 400 surface; the frame records, for each sampled pixel, the output
\* of the hover-gated shader, of the same shader with a zero border width,
\* and of the distance-based variant with ScenarioBlurRadius, the square of
\* the shader's dist, the grid-snapped coordinate and the result of snapping
\* that coordinate again.

\* mousePosition uniforms (doubled): the surface centre, the origin, and a
\* point at half-pixel coordinates.
FocusInputs == {[x |-> 500, y |-> 400], [x |-> 0, y |-> 0], [x |-> 501, y |-> 401]}

\* circleRadius, granularity and isModelHovered uniforms.
Radii == {0, 3, 110, 125}
Granularities == {10, 15}
HoverValues == {0, 5, 6, 10}

\* blurRadius of the distance-based variant in the comparison.
ScenarioBlurRadius == 20

\* Sampled pixels: columns at these offsets from the left edge and from the
\* centre column to either side, in the two centre rows and the top row.
Offsets == (0..4) \cup (104..111) \cup (119..127) \cup (143..149)
Cols == Offsets \cup {250 + k : k \in Offsets} \cup {249 - k : k \in Offsets}
Rows == {199, 200, 399}
Pixels == Cols \X Rows

ShaderInit ==
    /\ SceneInit
    /\ innerWidth = 500 /\ innerHeight = 400 /\ devicePixelRatio = 1
    /\ \E g \in Granularities, m \in FocusInputs, h \in HoverValues, r \in Radii :
           uniforms = [resolution |-> SurfaceResolution(World), granularity |-> g,
                       mousePosition |-> m, isModelHovered |-> h,
                       circleRadius |-> r]
    /\ frame = NoFrame
    /\ AppStart(FALSE)
    /\ PresenterStart(FALSE, DefaultFinalScale)

\* The composer draws a frame: mainImage runs once per pixel.
DrawFrame ==
    /\ frame = NoFrame
    /\ frame' = [p \in Pixels |->
                    [dist2 |-> DistSq(uniforms, p),
                     snapped |-> pixelatedUv(uniforms, p),
                     resnapped |->
                         <<snapToGrid(pixelatedUv(uniforms, p)[1],
                                      uniforms.granularity),
                           snapToGrid(pixelatedUv(uniforms, p)[2],
                                      uniforms.granularity)>>,
                     hoverGated |-> mainImage(uniforms, p),
                     zeroBorder |-> mainImageWith(uniforms, p, 0),
                     distanceBased |->
                         maskImage(MaskConfig(uniforms, ScenarioBlurRadius), p)]]
    /\ UNCHANGED <<sceneVars, uniforms, appVars, presenterVars>>

ShaderNext == DrawFrame

ShaderSpec == ShaderInit /\ [][ShaderNext]_vars

\* ---------------------------------------------------- App and Model steps
\* The page with MyScene's pointer state left as mounted: resizes, model
\* buttons, App's renders and effects, the Canvas renders and asset loads.

\* App renders: the cells are read, a new handleModelLoaded is created and
\* passed down; MyScene re-renders with it.
AppRender ==
    /\ appRenderPending
    /\ ~appEffectsPending
    /\ appRendered' = [index |-> currentModelIndex, isMobile |-> appIsMobile,
                       isLoading |-> isLoading]
    /\ appRenderPending' = FALSE
    /\ appEffectsPending' = (pathEffect # currentModelIndex)
    /\ handlerStale' = TRUE
    /\ sceneStale' = TRUE
    /\ UNCHANGED <<currentModelIndex, appIsMobile, isLoading, appMounted,
                   pathEffect, model, gltf, notifiedEarly>>
    /\ UNCHANGED <<sceneVars, uniforms, frame, presenterVars>>

\* App's effects: the resize listener (deps []) on the first run, and
\* setIsLoading(true) when currentModel.path changed.
AppEffects ==
    /\ appEffectsPending
    /\ appEffectsPending' = FALSE
    /\ appMounted' = TRUE
    /\ pathEffect' = appRendered.index
    /\ IF pathEffect # appRendered.index
       THEN /\ isLoading' = TRUE
            /\ appRenderPending' = (appRenderPending \/ ~isLoading)
       ELSE UNCHANGED <<isLoading, appRenderPending>>
    /\ UNCHANGED <<currentModelIndex, appIsMobile, appRendered, handlerStale,
                   sceneStale, model, gltf, notifiedEarly>>
    /\ UNCHANGED <<sceneVars, uniforms, frame, presenterVars>>

\* The Model's effect with deps [loadedGLTFScene] only.
ModelEffectFires_OnLoadOnly(m, loaded) == loaded /\ ~m.ran

\* The Model's effect (deps [loadedGLTFScene, onModelLoaded]) runs, and calls
\* onModelLoaded, on the first committed render of a Model and whenever the
\* onModelLoaded prop is another function than at its last run.
ModelEffectFires(m, loaded) == loaded /\ (~m.ran \/ handlerStale)

\* The Canvas children render with the props of App's last render.  A new
\* key mounts a new Model; useGLTF suspends it until its asset is loaded;
\* a committed render runs the Model's effect.
ModelCommit ==
    /\ sceneStale
    /\ sceneStale' = FALSE
    /\ LET key == appRendered.index
           m == IF model.key # key
                THEN [key |-> key, ran |-> FALSE, notified |-> 0]
                ELSE model
           loaded == gltf[key] = "loaded"
           fires == ModelEffectFires(m, loaded)
       IN  /\ gltf' = IF gltf[key] = "none" THEN [gltf EXCEPT ![key] = "loading"]
                      ELSE gltf
           /\ model' = [key |-> key,
                        ran |-> m.ran \/ loaded,
                        notified |-> IF fires /\ m.notified < MaxNotified
                                     THEN m.notified + 1 ELSE m.notified]
           /\ handlerStale' = IF loaded THEN FALSE ELSE handlerStale
           /\ isLoading' = IF fires THEN FALSE ELSE isLoading
           /\ appRenderPending' = (appRenderPending \/ (fires /\ isLoading))
           /\ notifiedEarly' = (notifiedEarly
                                \/ (fires /\ appEffectsPending /\ pathEffect # key))
    /\ UNCHANGED <<currentModelIndex, appIsMobile, appRendered, appEffectsPending,
                   appMounted, pathEffect>>
    /\ UNCHANGED <<sceneVars, uniforms, frame, presenterVars>>

\* The asset of model i arrives; a Model suspended on it renders again.
GLTFLoaded ==
    \E i \in Models :
        /\ gltf[i] = "loading"
        /\ gltf' = [gltf EXCEPT ![i] = "loaded"]
        /\ sceneStale' = (sceneStale \/ model.key = i)
        /\ UNCHANGED <<currentModelIndex, appIsMobile, isLoading, appRendered,
                       appRenderPending, appEffectsPending, appMounted,
                       pathEffect, handlerStale, model, notifiedEarly>>
        /\ UNCHANGED <<sceneVars, uniforms, frame, presenterVars>>

\* App's resize listener, once its effect has registered it, at the new
\* width wd: setIsMobile(window.innerWidth < 768).
AppHandleResize(wd) ==
    IF appMounted
    THEN /\ appIsMobile' = (wd < AppMobileWidth)
         /\ appRenderPending' =
                (appRenderPending \/ (wd < AppMobileWidth) # appIsMobile)
    ELSE UNCHANGED <<appIsMobile, appRenderPending>>

\* The window is resized: App's handleResize calls
\* setIsMobile(window.innerWidth < 768); MyScene re-renders the Canvas
\* children when its own mode (innerWidth <= 768) changes.
AppResize ==
    \E wd \in Widths :
        /\ wd # innerWidth
        /\ innerWidth' = wd
        /\ uniforms' = SceneUniforms([World EXCEPT !.innerWidth = wd])
        /\ AppHandleResize(wd)
        /\ sceneStale' =
               (sceneStale \/ (wd <= MobileMaxWidth) # (innerWidth <= MobileMaxWidth))
        /\ UNCHANGED <<currentModelIndex, isLoading, appRendered,
                       appEffectsPending, appMounted, pathEffect, handlerStale,
                       model, gltf, notifiedEarly>>
        /\ UNCHANGED <<innerHeight, rectOffset, devicePixelRatio,
                       mousePosition, isMobile, isDraggingMask,
                       hasDraggedInCurrentMobileSession, prevIsMobileStateRef,
                       rendered, mounted, e1, e2, e3, renderPending,
                       effectsPending, fingerDown, touchIgnored, enteredMobile,
                       lastEvent, frame>>
        /\ UNCHANGED presenterVars

\* A model button is clicked: loadNextModel on the mobile layout,
\* handleSetCurrentModelIndex(i) on the desktop layout.
SelectModel ==
    \E i \in Models :
        /\ appRendered.isMobile => i = (currentModelIndex + 1) % NumModels
        /\ currentModelIndex' = i
        /\ appRenderPending' = (appRenderPending \/ i # currentModelIndex)
        /\ notifiedEarly' = (notifiedEarly /\ i = currentModelIndex)
        /\ UNCHANGED <<appIsMobile, isLoading, appRendered, appEffectsPending,
                       appMounted, pathEffect, handlerStale, sceneStale, model,
                       gltf>>
        /\ UNCHANGED <<sceneVars, uniforms, frame, presenterVars>>

AppNext ==
    \/ AppRender
    \/ AppEffects
    \/ ModelCommit
    \/ GLTFLoaded
    \/ AppResize
    \/ SelectModel

\* The page loaded on a 400 px high window with device pixel ratio 1.
AppSpecInit ==
    /\ SceneInit
    /\ innerHeight = 400 /\ devicePixelRatio = 1
    /\ uniforms = SceneUniforms(World)
    /\ frame = NoFrame
    /\ AppInit
    /\ PresenterStart(FALSE, DefaultFinalScale)

AppSpec == AppSpecInit /\ [][AppNext]_vars

\* ------------------------------------------------------- App and MyScene
\* The two mode flags of the page: App and MyScene each keep an isMobile
\* cell and each register a resize listener on the window.  Model loading
\* and pointer input are left out.

\* The window is resized: the listeners of MyScene and of App both run.
PageResize ==
    \E wd \in Widths, ht \in Heights :
        /\ <<wd, ht>> # <<innerWidth, innerHeight>>
        /\ LET w0 == [World EXCEPT !.innerWidth = wd, !.innerHeight = ht]
               w1 == IF mounted THEN handleResize(w0, e1) ELSE w0
           IN  SceneBecomes(FlushSync(w1))
        /\ lastEvent' = [type |-> "resize", before |-> Before]
        /\ enteredMobile' = (innerWidth > MobileMaxWidth /\ wd <= MobileMaxWidth)
        /\ AppHandleResize(wd)
        /\ sceneStale' = (sceneStale \/ isMobile' # isMobile)
        /\ UNCHANGED <<fingerDown, touchIgnored>>
        /\ UNCHANGED <<currentModelIndex, isLoading, appRendered,
                       appEffectsPending, appMounted, pathEffect, handlerStale,
                       model, gltf, notifiedEarly>>
        /\ UNCHANGED presenterVars

PageNext ==
    \/ PageResize
    \/ Render
    \/ FlushEffects
    \/ AppRender
    \/ AppEffects

\* The page loads: MyScene and App after their first renders.
PageInit ==
    /\ SceneInit
    /\ uniforms = SceneUniforms(World)
    /\ frame = NoFrame
    /\ AppInit
    /\ PresenterStart(FALSE, DefaultFinalScale)

PageSpec == PageInit /\ [][PageNext]_vars

\* ------------------------------------------------- Model presenter steps
\* The mounted Model on its own: frames, pointer events on the model and in
\* the window, and re-renders by MyScene with another isMobile.

\* Frame time deltas in ms, and the finalScale props App's models have.
Deltas == {70, 100, 250}
FinalScales == {1000, 1100}

\* Frames are taken while the rotation stays below this angle.
MaxRotation == 1000

\* The useFrame callback: the scale animation, then the constant rotation.
Frame ==
    \E delta \in Deltas :
        /\ isAutoRotationPaused \/ rotationY + delta <= MaxRotation
        /\ IF ~animationCompletedRef
           THEN LET a == ScaleAnimation(animationTimeRef, finalScale, delta)
                IN  /\ animationTimeRef' = a.time
                    /\ animationCompletedRef' = a.completed
                    /\ animatedScale' = a.scale
           ELSE UNCHANGED <<animationTimeRef, animationCompletedRef, animatedScale>>
        /\ rotationY' = IF ~isAutoRotationPaused THEN rotationY + delta
                        ELSE rotationY
        /\ presenterEvent' = [type |-> "frame", delta |-> delta]
        /\ UNCHANGED <<presenterIsMobile, isAutoRotationPaused, finalScale>>
        /\ UNCHANGED <<sceneVars, uniforms, frame, appVars>>

\* onPointerDown of the model's bounding mesh.
PointerDownOnModel ==
    \E button \in Buttons :
        /\ isAutoRotationPaused' =
               onPointerDown(isAutoRotationPaused, presenterIsMobile, button)
        /\ presenterEvent' = [type |-> "pointerdown", button |-> button]
        /\ UNCHANGED <<presenterIsMobile, rotationY, animationTimeRef,
                       animationCompletedRef, animatedScale, finalScale>>
        /\ UNCHANGED <<sceneVars, uniforms, frame, appVars>>

\* handleGlobalPointerUp, the window's pointerup listener.
PointerUp ==
    \E button \in Buttons :
        /\ isAutoRotationPaused' =
               handleGlobalPointerUp(isAutoRotationPaused, button)
        /\ presenterEvent' = [type |-> "pointerup", button |-> button]
        /\ UNCHANGED <<presenterIsMobile, rotationY, animationTimeRef,
                       animationCompletedRef, animatedScale, finalScale>>
        /\ UNCHANGED <<sceneVars, uniforms, frame, appVars>>

\* MyScene has rendered in the other InputMode and passes it down.
PresenterProps ==
    /\ presenterIsMobile' = ~presenterIsMobile
    /\ presenterEvent' = [type |-> "props"]
    /\ UNCHANGED <<isAutoRotationPaused, rotationY, animationTimeRef,
                   animationCompletedRef, animatedScale, finalScale>>
    /\ UNCHANGED <<sceneVars, uniforms, frame, appVars>>

PresenterNext ==
    \/ Frame
    \/ PointerDownOnModel
    \/ PointerUp
    \/ PresenterProps

\* A Model mounted on a 500 x 400 page, on either kind of device and with
\* either final scale.
PresenterInit ==
    /\ SceneInit
    /\ innerWidth = 500 /\ innerHeight = 400 /\ devicePixelRatio = 1
    /\ uniforms = SceneUniforms(World)
    /\ frame = NoFrame
    /\ AppStart(FALSE)
    /\ \E mobile \in BOOLEAN, scale \in FinalScales :
           PresenterStart(mobile, scale)

PresenterSpec == PresenterInit /\ [][PresenterNext]_vars

\* The render loop keeps calling the useFrame callback.
FairPresenterSpec == PresenterSpec /\ WF_vars(Frame)

\* ------------------------------------------------------------------ claims

\* The device pixel ratio every render of this session computes.
dpr == Dpr(devicePixelRatio)

\* The geometric centre of the render surface, times dpr.
SurfaceCenter == RectCenter(World, dpr)

\* The step just taken is the delivery of an event of this type.
Delivered(type) == lastEvent'.type = type

C2_TouchStartOutsideIgnored ==
    [][/\ (/\ Delivered("touchstart")
           /\ ListenersCurrent
           /\ InputModeMobile
           /\ lastEvent'.at # NoTouch
           /\ ~HitsCircle(lastEvent'.at))
          => UNCHANGED <<mousePosition, isDraggingMask,
                         hasDraggedInCurrentMobileSession>>
       /\ (Delivered("touchmove") /\ touchIgnored)
          => UNCHANGED mousePosition]_vars


\* A session that starts at a mobile viewport width and is not resized.
InitMobileSession == Init /\ innerWidth <= MobileMaxWidth

NextInSession ==
    \/ Render
    \/ FlushEffects
    \/ MouseMove
    \/ TouchStart
    \/ TouchMove
    \/ TouchEnd

MobileSession == InitMobileSession /\ [][NextInSession]_vars

\* C3: in a session that starts at a mobile width, FocusPoint is the centre
\* of the render surface (times dpr) before any touch event can be processed:
\* a touch start that the listener processes before any drag is tested
\* against the centre, never against the initial (0,0).
C3_CenteredBeforeFirstTouch ==
    [][(/\ Delivered("touchstart")
        /\ lastEvent'.at # NoTouch
        /\ e3.isMobile
        /\ ~hasDraggedInCurrentMobileSession)
       => (/\ FocusPoint = SurfaceCenter
           /\ e3.mousePosition = SurfaceCenter)]_vars

\* C4: in every settled state where InputMode is mobile, no drag is in
\* progress and hasDraggedOnce is false, FocusPoint is the centre of the
\* current render surface times dpr.
C4_SettledMobileIsCentered ==
    (/\ Settled
     /\ InputModeMobile
     /\ ~isDraggingMask
     /\ ~hasDraggedInCurrentMobileSession)
    => FocusPoint = SurfaceCenter

\* C5: once a transition from desktop to mobile has settled, FocusPoint is
\* the centre of the render surface, whatever preceded the transition.
C5_TransitionToMobileCenters ==
    (enteredMobile /\ Settled) => (InputModeMobile /\ FocusPoint = SurfaceCenter)

\* C6: a touch end or touch cancel always ends the drag, and FocusPoint keeps
\* the value it had before it, the following effect pass included.
C6_TouchEndEndsDrag ==
    [][Delivered("touchend")
       => (~isDraggingMask' /\ mousePosition' = mousePosition)]_vars


C10_ResetOnEnteringMobile ==
    [][/\ (mounted /\ ~e2 /\ e2')
          => (/\ ~hasDraggedInCurrentMobileSession'
              /\ ~rendered'.isDraggingMask
                 => mousePosition' = RectCenter(World', rendered'.dpr))
       /\ (Delivered("resize") /\ isMobile' = isMobile)
          => UNCHANGED hasDraggedInCurrentMobileSession
       /\ (mounted /\ e2 /\ ~e2' /\ ~Delivered("touchstart"))
          => UNCHANGED hasDraggedInCurrentMobileSession]_vars

\* C10 witness: a resize from desktop to mobile reset a flag that an earlier
\* mobile session had set, and the same pass centred FocusPoint.
C10_Witness ==
    /\ lastEvent.type = "resize"
    /\ ~lastEvent.before.isMobile
    /\ lastEvent.before.hasDragged
    /\ ~lastEvent.before.isDraggingMask
    /\ InputModeMobile
    /\ ~hasDraggedInCurrentMobileSession
    /\ mousePosition = SurfaceCenter
    /\ e3.mousePosition # SurfaceCenter

\* C11: whenever the resize events so far have settled, InputMode is mobile
\* exactly when the viewport is at most 768 px wide (768 is mobile), and the
\* effect pass of the initial mount already establishes this for the width
\* the page has then, without a resize event.
C11_ModeFollowsWidth ==
    /\ [](Settled => (InputModeMobile <=> innerWidth <= MobileMaxWidth))
    /\ [][(~mounted /\ mounted') => (isMobile' <=> innerWidth' <= MobileMaxWidth)]_vars

\* C11 witness: a resize from a desktop width to exactly 768 px has settled
\* in mobile mode.
C11_Witness ==
    /\ Settled
    /\ enteredMobile
    /\ innerWidth = 768
    /\ InputModeMobile

PixelsAtFocus(u) ==
    LET m == correctedMousePosition(u)
    IN  {<<(m[1] \div 2) + a, (m[2] \div 2) + b>> : a, b \in {-1, 0}}

OnSurface(u, p) ==
    /\ p[1] >= 0 /\ p[1] < u.resolution[1]
    /\ p[2] >= 0 /\ p[2] < u.resolution[2]

\* C13: in the composed scene the mask is always active: whatever the
\* state, the frame drawn with the uniforms MyScene mounted shows, at the
\* pixels next to FocusPoint (well inside the circle), the source at the
\* pixel's own uv and not the pixelated image.
C13_MaskAlwaysActive ==
    \A p \in PixelsAtFocus(uniforms) :
        OnSurface(uniforms, p)
            => mainImage(uniforms, p) = [color |-> "inputBuffer",
                                         uv |-> <<2 * p[1] + 1, 2 * p[2] + 1>>]

\* A frame has been drawn, with the hover flag off or on.
DrawnHoverOff == frame # NoFrame /\ uniforms.isModelHovered <= 5
DrawnHoverOn == frame # NoFrame /\ uniforms.isModelHovered > 5

\* C14: in the hover-gated shader with the hover uniform at most 0.5, the
\* output of every pixel is the source read at the pixel's grid-snapped
\* coordinate (granularity * floor(centre / granularity)), whatever
\* FocusPoint and circleRadius are.
C14_HoverOffPixelatesEverywhere ==
    DrawnHoverOff =>
        \A p \in Pixels :
            frame[p].hoverGated =
                [color |-> "inputBuffer",
                 uv |-> <<(2 * uniforms.granularity)
                              * ((2 * p[1] + 1) \div (2 * uniforms.granularity)),
                          (2 * uniforms.granularity)
                              * ((2 * p[2] + 1) \div (2 * uniforms.granularity))>>]

\* C14 witness: with the hover uniform at exactly 0.5 and the circle of
\* radius 125 centred on the surface, the pixel at the centre shows the
\* source at its cell's corner (250, 200).
C14_Witness ==
    /\ frame # NoFrame
    /\ uniforms.isModelHovered = 5
    /\ uniforms.circleRadius = 125
    /\ uniforms.granularity = 10
    /\ uniforms.mousePosition = [x |-> 500, y |-> 400]
    /\ frame[<<250, 200>>].hoverGated = [color |-> "inputBuffer", uv |-> <<500, 400>>]

\* The class of an output at pixel p: 0 sharp (the source at the pixel's own
\* uv), 1 white, 2 anything else.
ClassOf(o, p) ==
    IF o = [color |-> "inputBuffer", uv |-> <<2 * p[1] + 1, 2 * p[2] + 1>>] THEN 0
    ELSE IF o = [color |-> "white", uv |-> <<>>] THEN 1
    ELSE 2

\* C15: in the hover-gated shader with the hover flag on, every pixel is
\* sharp (source at its own uv), flat white, or pixelated (source at its
\* grid-snapped uv); white is output exactly in the ring
\* circleRadius - 4 < dist < circleRadius; and for any two pixels the one
\* nearer to the Y-flipped FocusPoint is never of a later class (sharp, then
\* border, then pixelated), so that the class depends on the distance only.
C15_ThreeClassesByDistance ==
    DrawnHoverOn =>
        /\ \A p \in Pixels :
               /\ \/ ClassOf(frame[p].hoverGated, p) \in {0, 1}
                  \/ frame[p].hoverGated = texture2D(pixelatedUv(uniforms, p))
               /\ ClassOf(frame[p].hoverGated, p) = 1
                  <=> /\ DistGreater(DistSq(uniforms, p), uniforms.circleRadius - 4)
                      /\ DistLess(DistSq(uniforms, p), uniforms.circleRadius)
        /\ \A p, q \in Pixels :
               DistSq(uniforms, p) <= DistSq(uniforms, q)
                   => ClassOf(frame[p].hoverGated, p) <= ClassOf(frame[q].hoverGated, q)

\* C15 witness: hover on, radius 125 around the surface centre: the centre
\* pixel is sharp, the pixel 122.5 px to the right is white and the pixel
\* 126.5 px to the right is pixelated.
C15_Witness ==
    /\ frame # NoFrame
    /\ uniforms.isModelHovered = 10
    /\ uniforms.circleRadius = 125
    /\ uniforms.granularity = 10
    /\ uniforms.mousePosition = [x |-> 500, y |-> 400]
    /\ frame[<<250, 200>>].hoverGated = [color |-> "inputBuffer", uv |-> <<501, 401>>]
    /\ frame[<<372, 200>>].hoverGated = [color |-> "white", uv |-> <<>>]
    /\ frame[<<376, 200>>].hoverGated = [color |-> "inputBuffer", uv |-> <<740, 400>>]

\* C16: with the mask shown (hover flag on), the border colour is output
\* exactly for the pixels with outerEdge < dist <= outerEdge + borderWidth,
\* where outerEdge = circleRadius + blurRadius and the hover-gated shader has
\* no blur (blurRadius = 0): the band lies immediately outside the circle
\* and no pixel with dist <= outerEdge is border-coloured.
C16_BorderBandOutsideCircle ==
    DrawnHoverOn =>
        \A p \in Pixels :
            frame[p].hoverGated.color = "white"
            <=> /\ DistGreater(DistSq(uniforms, p), uniforms.circleRadius)
                /\ DistAtMost(DistSq(uniforms, p), uniforms.circleRadius + 4)

\* C17: with the mask shown (hover flag on; the shader has no fisheye), every
\* pixel with dist <= innerEdge, innerEdge = circleRadius - blurRadius with
\* blurRadius = 0, shows the unmodified source at the pixel's own uv.
C17_SharpInsideInnerEdge ==
    DrawnHoverOn =>
        \A p \in Pixels :
            DistAtMost(DistSq(uniforms, p), uniforms.circleRadius)
                => frame[p].hoverGated = [color |-> "inputBuffer",
                                          uv |-> <<2 * p[1] + 1, 2 * p[2] + 1>>]

\* A frame drawn in the scenario of C18: FocusPoint at the surface centre,
\* circleRadius 125, granularity 10, the comparison's blurRadius 20, the
\* hover flag of the legacy variant on.
DrawnScenario ==
    /\ frame # NoFrame
    /\ uniforms.mousePosition = [x |-> uniforms.resolution[1], y |-> uniforms.resolution[2]]
    /\ uniforms.circleRadius = 125
    /\ uniforms.granularity = 10
    /\ uniforms.isModelHovered > 5

ShaderFocus == uniforms.mousePosition

C20_NotifiedOncePerSwap == model.notified <= 1


\* The Model's step just taken is of this type.
PresenterStep(type) == presenterEvent'.type = type

\* C21 as stated: while the device-is-mobile flag is true no pointer-down
\* on the model sets the paused state and the rotation advances on every
\* frame; on desktop a left-button pointer-down on the model pauses the
\* rotation until the next left-button pointer-up in the window.
C21_MobileRotatesEveryFrame ==
    [][/\ (PresenterStep("pointerdown") /\ presenterIsMobile)
          => isAutoRotationPaused' = isAutoRotationPaused
       /\ (PresenterStep("frame") /\ presenterIsMobile)
          => rotationY' = rotationY + presenterEvent'.delta
       /\ (PresenterStep("pointerdown") /\ ~presenterIsMobile
           /\ presenterEvent'.button = 0)
          => isAutoRotationPaused'
       /\ (isAutoRotationPaused /\ ~isAutoRotationPaused')
          => (PresenterStep("pointerup") /\ presenterEvent'.button = 0)
       /\ (PresenterStep("pointerup") /\ presenterEvent'.button = 0)
          => ~isAutoRotationPaused']_vars

\* C21 amended: no pointer-down delivered while the device-is-mobile flag
\* is true sets the paused state, and the paused state is only ever set by
\* a left-button pointer-down on the model on desktop; it then lasts until
\* the next left-button pointer-up in the window, in whichever mode that
\* arrives; the rotation advances by delta * 0.5 on exactly the frames on
\* which the paused state is false.
C21_PausedOnlyFromDesktop ==
    [][/\ (PresenterStep("pointerdown") /\ presenterIsMobile)
          => isAutoRotationPaused' = isAutoRotationPaused
       /\ (~isAutoRotationPaused /\ isAutoRotationPaused')
          => (/\ PresenterStep("pointerdown")
              /\ presenterEvent'.button = 0
              /\ ~presenterIsMobile)
       /\ PresenterStep("frame")
          => rotationY' = IF isAutoRotationPaused THEN rotationY
                          ELSE rotationY + presenterEvent'.delta
       /\ (PresenterStep("pointerdown") /\ ~presenterIsMobile
           /\ presenterEvent'.button = 0)
          => isAutoRotationPaused'
       /\ (isAutoRotationPaused /\ ~isAutoRotationPaused')
          => (PresenterStep("pointerup") /\ presenterEvent'.button = 0)
       /\ (PresenterStep("pointerup") /\ presenterEvent'.button = 0)
          => ~isAutoRotationPaused']_vars

\* C21 witness: a left-button pointer-down on the model of a mobile page
\* that has turned since its mount left the rotation running.
C21_Witness ==
    /\ presenterEvent.type = "pointerdown"
    /\ presenterEvent.button = 0
    /\ presenterIsMobile
    /\ ~isAutoRotationPaused
    /\ rotationY > 0

\* C22: every field MyScene supplies to the effect (granularity,
\* circleRadius, blurRadius, fisheyeStrength, edgeWarpAmplitude,
\* edgeWarpFrequency and the FocusPoint as mousePosition) is a uniform of
\* the mounted effect, with the value supplied in the last render: no
\* supplied field is dropped.
C22_NoSuppliedFieldDropped ==
    \A f \in DOMAIN SceneEffectProps(rendered) :
        /\ f \in DOMAIN uniforms
        /\ uniforms[f] = SceneEffectProps(rendered)[f]

\* C23: the circleRadius handed to the shader is 110 * dpr on mobile and
\* 135 * dpr on desktop for the mode and the dpr (1 or 2) of the last
\* render; the listeners registered for that render test touch starts
\* against the same number; and a touch start is accepted exactly when the
\* touch point, (client - rect) * dpr, lies within that many device pixels
\* of the FocusPoint the listener holds.
C23_HitRadiusIsShaderRadius ==
    /\ [](/\ rendered.dpr \in {1, 2}
          /\ uniforms.circleRadius = IF rendered.isMobile THEN 110 * rendered.dpr
                                     ELSE 135 * rendered.dpr)
    /\ []((mounted /\ ~effectsPending)
             => /\ e3.isMobile = rendered.isMobile
                /\ e3.dpr = rendered.dpr)
    /\ [][(/\ Delivered("touchstart")
           /\ lastEvent'.at # NoTouch
           /\ e3.isMobile
           /\ rendered.isMobile)
          => LET tx == 2 * ((lastEvent'.at[1] - rectOffset) * rendered.dpr)
                 ty == 2 * ((lastEvent'.at[2] - rectOffset) * rendered.dpr)
                 dx == tx - e3.mousePosition.x
                 dy == ty - e3.mousePosition.y
                 accepted == /\ isDraggingMask'
                             /\ hasDraggedInCurrentMobileSession'
                             /\ mousePosition' = [x |-> tx, y |-> ty]
             IN  accepted <=> dx * dx + dy * dy
                                  <= (2 * uniforms.circleRadius)
                                         * (2 * uniforms.circleRadius)]_vars

\* C23 witness: at dpr 2 a touch start 204 device pixels from the centred
\* FocusPoint (102 CSS px) was accepted against the radius 220 the shader
\* draws.
C23_Witness ==
    /\ lastEvent.type = "touchstart"
    /\ lastEvent.at = <<360, 200>>
    /\ lastEvent.before.settled
    /\ lastEvent.before.isMobile
    /\ ~lastEvent.before.hasDragged
    /\ innerWidth = 500 /\ innerHeight = 400
    /\ rendered.dpr = 2
    /\ uniforms.circleRadius = 220
    /\ isDraggingMask
    /\ mousePosition = [x |-> 1408, y |-> 768]

\* C24: for a FocusPoint given top-down at (x, y), the distance the shader
\* measures at a pixel is the distance between (x, y) and the pixel's centre
\* in top-down coordinates (row resolution.y - 1 - j for the row j counted
\* from the bottom): it is zero exactly at the pixel centred on (x, y).
C24_DistanceIsTopDown ==
    frame # NoFrame =>
        \A p \in Pixels :
            LET cx == 2 * p[1] + 1
                cy == 2 * (uniforms.resolution[2] - 1 - p[2]) + 1
                dx == cx - uniforms.mousePosition.x
                dy == cy - uniforms.mousePosition.y
            IN  /\ frame[p].dist2 = dx * dx + dy * dy
                /\ frame[p].dist2 = 0
                   <=> (/\ uniforms.mousePosition.x = cx
                        /\ uniforms.mousePosition.y = cy)

\* C24 witness: with FocusPoint at (250.5, 200.5) from the top left of the
\* 500 x 400 surface, the distance is zero at the pixel in column 250 and
\* row 199 from the bottom (row 200 from the top), and one pixel at the
\* pixel above it.
C24_Witness ==
    /\ frame # NoFrame
    /\ uniforms.mousePosition = [x |-> 501, y |-> 401]
    /\ frame[<<250, 199>>].dist2 = 0
    /\ frame[<<250, 200>>].dist2 = 4

\* C25: grid snapping maps the coordinate of every pixel to the lower-left
\* corner s of its granularity cell: on each axis s is a multiple of the
\* cell size and s <= p < s + cell size; every pixel that lies in that cell
\* gets the same s; and snapping s again returns s.
C25_SnapToCellCorner ==
    frame # NoFrame =>
        \A p \in Pixels :
            LET cell == 2 * uniforms.granularity
                s == frame[p].snapped
            IN  /\ s[1] % cell = 0 /\ s[2] % cell = 0
                /\ s[1] <= 2 * p[1] + 1 /\ 2 * p[1] + 1 < s[1] + cell
                /\ s[2] <= 2 * p[2] + 1 /\ 2 * p[2] + 1 < s[2] + cell
                /\ \A q \in Pixels :
                       (/\ s[1] <= 2 * q[1] + 1 /\ 2 * q[1] + 1 < s[1] + cell
                        /\ s[2] <= 2 * q[2] + 1 /\ 2 * q[2] + 1 < s[2] + cell)
                           => frame[q].snapped = s
                /\ frame[p].resnapped = s

\* C25 witness: with granularity 15 the pixels of columns 104 and 105 in
\* row 199 fall in the cells with corners (90, 195) and (105, 195), and
\* snapping (105, 195) again gives (105, 195).
C25_Witness ==
    /\ frame # NoFrame
    /\ uniforms.granularity = 15
    /\ frame[<<104, 199>>].snapped = <<180, 390>>
    /\ frame[<<105, 199>>].snapped = <<210, 390>>
    /\ frame[<<105, 199>>].resnapped = <<210, 390>>

\* C26: in every reachable state a drag in progress implies that InputMode
\* is mobile and hasDraggedOnce is true; in particular, once the viewport
\* has switched to desktop and the finger is lifted, with everything
\* settled, the dragging flag is not set.
C26_DragImpliesMobile ==
    /\ isDraggingMask => (InputModeMobile /\ hasDraggedInCurrentMobileSession)
    /\ (Settled /\ ~InputModeMobile /\ ~fingerDown) => ~isDraggingMask

\* App and the Canvas have nothing left to render or run.
AppSettled ==
    /\ appMounted
    /\ ~appRenderPending
    /\ ~appEffectsPending
    /\ ~sceneStale

\* C27: after any sequence of model selections, once the selected model's
\* asset is loaded and all renders and effects have settled, isLoading is
\* false, whether the Model's loaded callback ran before or after App's
\* path-change effect; while the selected asset is still loading the
\* settled overlay is shown; and isLoading only turns true in App's
\* path-change effect and only turns false in a load notification of the
\* rendered Model.
C27_OverlayEndsWhenLoaded ==
    /\ []((AppSettled /\ gltf[currentModelIndex] = "loaded") => ~isLoading)
    /\ []((AppSettled /\ gltf[currentModelIndex] # "loaded") => isLoading)
    /\ [][/\ (~isLoading /\ isLoading')
             => (appEffectsPending /\ ~appEffectsPending'
                 /\ pathEffect' # pathEffect)
          /\ (isLoading /\ ~isLoading')
             => (sceneStale /\ ~sceneStale'
                 /\ gltf[appRendered.index] = "loaded")]_vars

\* C27 witness: after the second model had been shown the first model,
\* whose asset was cached, was selected again; its Model notified before
\* App's path-change effect ran, the effect then showed the overlay, and
\* after the renders that followed the overlay is hidden.
C27_Witness ==
    /\ AppSettled
    /\ currentModelIndex = 0
    /\ gltf[1] # "none"
    /\ notifiedEarly
    /\ gltf[currentModelIndex] = "loaded"
    /\ model.key = currentModelIndex
    /\ model.notified = 2
    /\ ~isLoading

\* C28: the effect cascade of MyScene is bounded: after the mount and after
\* every resize, mouse or touch event, at most seven renders and effect
\* passes follow before nothing is left to render or run, unless another
\* event arrives first; the centring effect, which sets FocusPoint and
\* depends on it, does not keep re-rendering.
C28_CascadeIsBounded ==
    /\ lastEvent.type \in {"render", "effects"} => lastEvent.n <= 7
    /\ (lastEvent.type \in {"render", "effects"} /\ lastEvent.n = 7) => Settled

\* C28 witness: a cascade in which the centring effect ran twice (once for
\* the mode change, once for the FocusPoint it set itself) has ended with
\* FocusPoint at the centre and nothing left to render.
C28_Witness ==
    /\ lastEvent.type = "render"
    /\ lastEvent.n >= 4
    /\ Settled
    /\ InputModeMobile
    /\ ~hasDraggedInCurrentMobileSession
    /\ mousePosition = SurfaceCenter
    /\ e3.mousePosition = SurfaceCenter

\* The phase of the entrance animation: 0 overshoot, 1 settle, 2 done.
AnimationPhase ==
    IF animationCompletedRef THEN 2
    ELSE IF animationTimeRef <= 250 THEN 0
    ELSE 1

\* C29: with frames of positive time deltas the entrance animation reaches
\* its completed state; the frame that completes it sets the scale to
\* exactly the target scale; the phases only advance (overshoot, settle,
\* done); and once completed no frame changes the scale, the animation time
\* or the completed flag.
C29_AnimationFinishesAndStays ==
    /\ <>animationCompletedRef
    /\ [][/\ (~animationCompletedRef /\ animationCompletedRef')
             => (/\ animatedScale'.num = finalScale * animatedScale'.den
                 /\ animationTimeRef' >= 450)
          /\ AnimationPhase' >= AnimationPhase
          /\ animationCompletedRef
             => (/\ animationCompletedRef'
                 /\ animatedScale' = animatedScale
                 /\ animationTimeRef' = animationTimeRef)
          /\ ~animationCompletedRef'
             => animationTimeRef' < 450]_vars

\* C29 witness: a Model with final scale 1.1 completed its animation at
\* exactly 0.45 s with the scale 1.1, and frames after that turned the model
\* further without changing the scale.
C29_Witness ==
    /\ animationCompletedRef
    /\ animationTimeRef = 450
    /\ finalScale = 1100
    /\ animatedScale.num = 1100 * animatedScale.den
    /\ presenterEvent.type = "frame"
    /\ rotationY > 450

\* MyScene and App have nothing left to render or run.
PageSettled ==
    /\ Settled
    /\ appMounted
    /\ ~appRenderPending
    /\ ~appEffectsPending

\* C30: once resize handling has settled, App's mobile flag (the one its
\* last render chose the layout with) and MyScene's InputMode agree,
\* whatever the viewport width.
C30_ModeFlagsAgree ==
    PageSettled => (/\ appIsMobile <=> InputModeMobile
                    /\ appRendered.isMobile <=> rendered.isMobile)

TypeOK ==
    /\ isMobile \in BOOLEAN
    /\ isDraggingMask \in BOOLEAN
    /\ mounted \in BOOLEAN

====
